---- MODULE Spec2Model ----
(***************************************************************************)
(* Model of the Airtable proxy function of this repository.  Three copies  *)
(* of the same handler exist in the sources and are told apart by the      *)
(* variable `variant`:                                                     *)
(*   "airtable"  src/serverless-airtable.js                                *)
(*   "local"     src/unnamed/part_000, lines 1-216 (runServerlessFunction) *)
(*   "vercel"    src/unnamed/part_000, lines 219-523                       *)
(* Text is modelled as a sequence of symbols: one-character strings where  *)
(* the code looks inside the text (digits, URL punctuation) and whole      *)
(* words elsewhere.                                                        *)
(***************************************************************************)
EXTENDS Integers, Sequences, FiniteSets, TLC

\* ------------------------------------------------------------------ bounds
\* longest upstream page chain (pages reachable from the first request)
MaxPages == 3
\* most records the upstream holds, over all its pages
MaxRecords == 2
\* fetchPage calls after which the model stops following a cyclic upstream
MaxCalls == 4
\* longest upstream error body, in symbols
MaxBody == 3

\* --------------------------------------------------------- program constants
PAGE_SIZE == 50
TABLE_NAME == "TableName"
FALLBACK_TABLE_ID == "tblDrUWfwkwMQM9yR"
FILTER_FORMULA == <<"NOT", "(", "{", "Status", "}", "=", "'", "Done", "'", ")">>
SORT_FIELD == <<"Name">>
SORT_DIRECTION == <<"asc">>

Variants == {"airtable", "local", "vercel"}

\* ------------------------------------------------------------- JS values
\* A JS value that is null, undefined or a string: t is the type tag.
Null == [t |-> "null", v |-> <<>>]
Undefined == [t |-> "undefined", v |-> <<>>]
Str(s) == [t |-> "string", v |-> s]

\* JS truthiness of such a value: null, undefined and "" are falsy.
Truthy(x) == x.t = "string" /\ x.v # <<>>

\* a || b
OrElse(a, b) == IF Truthy(a) THEN a ELSE b

\* ------------------------------------------------------------------ text
RECURSIVE Flatten(_)
Flatten(ss) == IF ss = <<>> THEN <<>> ELSE Head(ss) \o Flatten(Tail(ss))

\* String.prototype.includes
Includes(s, p) ==
  \E i \in 0..(Len(s) - Len(p)) : SubSeq(s, i + 1, i + Len(p)) = p

DigitChar(d) ==
  CASE d = 0 -> "0" [] d = 1 -> "1" [] d = 2 -> "2" [] d = 3 -> "3"
    [] d = 4 -> "4" [] d = 5 -> "5" [] d = 6 -> "6" [] d = 7 -> "7"
    [] d = 8 -> "8" [] d = 9 -> "9"

\* Number to decimal text (template literal, Number.prototype.toString)
RECURSIVE NumText(_)
NumText(n) ==
  IF n < 10 THEN <<DigitChar(n)>> ELSE NumText(n \div 10) \o <<DigitChar(n % 10)>>

\* ------------------------------------------------- URL query serialisation
\* URLSearchParams serialises with application/x-www-form-urlencoded:
\* letters, digits and * - . _ stay, a space becomes +, every other byte
\* becomes %XX.
Reserved ==
  [c \in {"+", "%", "/", "(", ")", "{", "}", "=", "'", "[", "]", "&"} |->
     CASE c = "+" -> <<"%", "2", "B">>
       [] c = "%" -> <<"%", "2", "5">>
       [] c = "/" -> <<"%", "2", "F">>
       [] c = "(" -> <<"%", "2", "8">>
       [] c = ")" -> <<"%", "2", "9">>
       [] c = "{" -> <<"%", "7", "B">>
       [] c = "}" -> <<"%", "7", "D">>
       [] c = "=" -> <<"%", "3", "D">>
       [] c = "'" -> <<"%", "2", "7">>
       [] c = "[" -> <<"%", "5", "B">>
       [] c = "]" -> <<"%", "5", "D">>
       [] c = "&" -> <<"%", "2", "6">>]

EncodeChar(c) ==
  IF c = " " THEN <<"+">>
  ELSE IF c \in DOMAIN Reserved THEN Reserved[c]
  ELSE <<c>>

\* Serialisation of one name or value (form-urlencoded); EncodeIdentity is
\* the variant that escapes nothing.
EncodeIdentity(s) == s
Encode(s) == Flatten([i \in 1..Len(s) |-> EncodeChar(s[i])])

\* The upstream's reading of one serialised name or value, from symbol i on:
\* + is a space, %XX the byte it stands for.
RECURSIVE DecodeFrom(_, _)
DecodeFrom(s, i) ==
  IF i > Len(s) THEN <<>>
  ELSE IF s[i] = "+" THEN <<" ">> \o DecodeFrom(s, i + 1)
  ELSE IF s[i] = "%" /\ i + 2 <= Len(s)
            /\ \E c \in DOMAIN Reserved : Reserved[c] = <<s[i], s[i + 1], s[i + 2]>>
       THEN <<CHOOSE c \in DOMAIN Reserved : Reserved[c] = <<s[i], s[i + 1], s[i + 2]>> >>
              \o DecodeFrom(s, i + 3)
  ELSE <<s[i]>> \o DecodeFrom(s, i + 1)

Decode(s) == DecodeFrom(s, 1)

Param(k, v) == [k |-> Encode(k), v |-> Encode(v)]

\* ------------------------------------------------------- request building
\* The table segment of the URL and the "table" value of the success body.
TableId(var, e) ==
  CASE var = "airtable" -> <<TABLE_NAME>>
    [] var = "local" -> <<FALLBACK_TABLE_ID>>
    [] var = "vercel" -> OrElse(e.AIRTABLE_TABLE_ID, Str(<<FALLBACK_TABLE_ID>>)).v

\* buildAirtableURL(offset): the four fixed parameters, then the offset
\* when it is truthy.
buildAirtableURL(var, e, off) ==
  [base |-> e.AIRTABLE_BASE_ID.v,
   table |-> TableId(var, e),
   query |-> <<Param(<<"filterByFormula">>, FILTER_FORMULA),
               Param(<<"sort", "[", "0", "]", "[", "field", "]">>, SORT_FIELD),
               Param(<<"sort", "[", "0", "]", "[", "direction", "]">>, SORT_DIRECTION),
               Param(<<"pageSize">>, NumText(PAGE_SIZE))>>
              \o (IF Truthy(off) THEN <<Param(<<"offset">>, off.v)>> ELSE <<>>)]

\* ---------------------------------------------------------------- upstream
\* The list endpoint as the code meets it through fetch(): a chain of pages,
\* page 1 answering the request without offset and page j the request whose
\* offset is TokenOf(j).
Records == {"r1", "r2"}
SpecialChars == <<"+", "/", " ", "%">>
TokenOf(j) ==
  <<"itr">> \o NumText(j) \o <<SpecialChars[((j - 2) % 4) + 1], "rec">>

\* The offset a request carries, as the upstream reads it: the value of the
\* parameter named offset, Undefined when the query has none.
OffsetOf(url) ==
  LET q == url.query
  IN IF q[Len(q)].k = <<"offset">> THEN Str(Decode(q[Len(q)].v))
     ELSE IF \E i \in 1..Len(q) : q[i].k = <<"offset">>
       THEN Str(Decode(q[CHOOSE i \in 1..Len(q) : q[i].k = <<"offset">>].v))
     ELSE Undefined

NoFault == [at |-> 0, kind |-> "none", status |-> 0, text |-> <<>>]

\* What the upstream answers to a request whose offset reads off: page 1
\* without offset, page j for TokenOf(j), 422 for any other offset.
Answer(ds, off) ==
  IF off = Undefined
    THEN [kind |-> "ok", status |-> 200, text |-> <<>>, data |-> ds[1]]
  ELSE IF \E j \in 2..Len(ds) : off = Str(TokenOf(j))
    THEN [kind |-> "ok", status |-> 200, text |-> <<>>,
          data |-> ds[CHOOSE j \in 2..Len(ds) : off = Str(TokenOf(j))]]
  ELSE [kind |-> "http", status |-> 422,
        text |-> <<"INVALID_OFFSET_VALUE">>, data |-> <<>>]

\* What fetch() yields for the n-th request of an invocation: the planned
\* failure, else the upstream's answer.
Upstream(ds, flt, n, url) ==
  IF flt.at = n
    THEN [kind |-> flt.kind, status |-> flt.status, text |-> flt.text, data |-> <<>>]
    ELSE CHOOSE r \in {Answer(ds, off) : off \in {OffsetOf(url)}} : TRUE

\* --------------------------------------------------------------- fetchPage
\* data.records || []   and   data.offset || null; RecordsOfNoDefault is the
\* variant without the default.
RecordsOfNoDefault(data) ==
  IF "records" \in DOMAIN data THEN data.records ELSE <<Undefined>>
RecordsOf(data) == IF "records" \in DOMAIN data THEN data.records ELSE <<>>
\* OffsetFieldDropped is the variant that never passes a token on.
OffsetFieldDropped(data) == Null
OffsetField(data) ==
  OrElse(IF "offset" \in DOMAIN data THEN data.offset ELSE Undefined, Null)

\* JSON.parse(errorText) succeeds: the body is a number (a digit run with no
\* leading zero) or a quoted string whose inside holds no bare quote.
Digits == {"0", "1", "2", "3", "4", "9"}
Quote == "\""
Escapes == [c \in {"\\u0034", "\\u0020"} |-> IF c = "\\u0034" THEN "4" ELSE " "]
IsJSON(b) ==
  \/ /\ b # <<>>
     /\ \A i \in 1..Len(b) : b[i] \in Digits
     /\ (Len(b) > 1 => b[1] # "0")
  \/ /\ Len(b) >= 2
     /\ b[1] = Quote /\ b[Len(b)] = Quote
     /\ \A i \in 2..(Len(b) - 1) : b[i] # Quote

\* JSON.stringify(JSON.parse(errorText), null, 2): escapes are resolved.
Reformat(b) ==
  [i \in 1..Len(b) |-> IF b[i] \in DOMAIN Escapes THEN Escapes[b[i]] ELSE b[i]]

\* The text after "Airtable API error (status): ".
ErrorDetails(var, b) ==
  IF var = "vercel" /\ IsJSON(b) THEN Reformat(b) ELSE b

\* The message of the error fetchPage throws or lets through;
\* ErrorMessageWrapped is the variant that wraps a rejected fetch() as well.
ErrorMessageWrapped(var, rep) ==
  <<"Airtable API error (">> \o NumText(rep.status) \o <<"): ">>
    \o ErrorDetails(var, rep.text)
ErrorMessage(var, rep) ==
  IF rep.kind = "network" THEN rep.text
  ELSE <<"Airtable API error (">> \o NumText(rep.status) \o <<"): ">>
         \o ErrorDetails(var, rep.text)

\* ----------------------------------------------------------- error mapping
\* The handler's catch block: the first rule one of whose markers occurs in
\* error.message decides; none gives 500.
Rule(code, phrase, type) ==
  [code |-> code, markers |-> {NumText(code), phrase}, type |-> type]
RuleCodeOnly(code, type) ==
  [code |-> code, markers |-> {NumText(code)}, type |-> type]

FailedToFetch == "Failed to fetch Airtable records"

StatusRules(var) ==
  CASE var = "vercel" ->
         <<Rule(401, <<"Unauthorized">>, "Authentication error"),
           Rule(403, <<"Forbidden">>, "Permission denied"),
           Rule(404, <<"Not", " ", "Found">>, "Resource not found"),
           Rule(422, <<"Unprocessable">>, "Invalid request"),
           Rule(429, <<"Too", " ", "Many", " ", "Requests">>, "Rate limit exceeded")>>
    [] var = "airtable" ->
         <<Rule(401, <<"Unauthorized">>, FailedToFetch),
           Rule(403, <<"Forbidden">>, FailedToFetch),
           Rule(404, <<"Not", " ", "Found">>, FailedToFetch),
           Rule(422, <<"Unprocessable">>, FailedToFetch)>>
    [] var = "local" ->
         <<RuleCodeOnly(401, FailedToFetch), RuleCodeOnly(403, FailedToFetch),
           RuleCodeOnly(404, FailedToFetch), RuleCodeOnly(422, FailedToFetch)>>

\* A rule matches when one of its markers occurs in the message; MatchesFirst
\* is the variant that looks for it at the start of the message only.
MatchesFirst(rule, msg) ==
  \E m \in rule.markers : Len(m) <= Len(msg) /\ SubSeq(msg, 1, Len(m)) = m
Matches(rule, msg) == \E m \in rule.markers : Includes(msg, m)

\* Index of the first matching rule, 0 when none matches.
FirstMatch(var, msg) ==
  LET rs == StatusRules(var)
      hit == {i \in 1..Len(rs) : Matches(rs[i], msg)}
  IN IF hit = {} THEN 0 ELSE CHOOSE i \in hit : \A j \in hit : i <= j

\* The status of the answer; StatusForLast is the variant in which the last
\* matching rule decides.
StatusForLast(var, msg) ==
  LET rs == StatusRules(var)
      hit == {i \in 1..Len(rs) : Matches(rs[i], msg)}
  IN IF hit = {} THEN 500 ELSE rs[CHOOSE i \in hit : \A j \in hit : i >= j].code
StatusFor(var, msg) ==
  IF FirstMatch(var, msg) = 0 THEN 500 ELSE StatusRules(var)[FirstMatch(var, msg)].code

ErrorTypeFor(var, msg) ==
  IF FirstMatch(var, msg) = 0
    THEN (IF var = "vercel" THEN "Internal server error" ELSE FailedToFetch)
    ELSE StatusRules(var)[FirstMatch(var, msg)].type

\* ---------------------------------------------------------------- responses
\* setCORSHeaders (the local harness sets no Access-Control-Max-Age)
\* CORSHeadersContentOnly is the variant that sets the content type alone.
CORSHeadersContentOnly(var) == [h \in {"Content-Type"} |-> "application/json"]
CORSHeaders(var) ==
  [h \in {"Access-Control-Allow-Origin", "Access-Control-Allow-Methods",
          "Access-Control-Allow-Headers", "Content-Type"}
         \cup (IF var = "local" THEN {} ELSE {"Access-Control-Max-Age"}) |->
     CASE h = "Access-Control-Allow-Origin" -> "*"
       [] h = "Access-Control-Allow-Methods" -> "GET, OPTIONS"
       [] h = "Access-Control-Allow-Headers" -> "Content-Type, Authorization"
       [] h = "Access-Control-Max-Age" -> "86400"
       [] h = "Content-Type" -> "application/json"]

\* A response object nothing was written to yet.
FreshRes == [statusCode |-> 200, headers |-> <<>>, body |-> <<>>, sent |-> "no"]

\* res.status(code).json(body) and res.status(code).end()
Json(r, code, b) == [r EXCEPT !.statusCode = code, !.body = b, !.sent = "json"]
End(r, code) == [r EXCEPT !.statusCode = code, !.sent = "end"]

\* The vercel handler adds success:false to its 405 and 500 bodies.
Plain(var, err, msg) ==
  IF var = "vercel"
    THEN [success |-> FALSE, error |-> err, message |-> msg]
    ELSE [error |-> err, message |-> msg]

\* The 200 body; SuccessBodyDistinct is the variant that counts distinct
\* records.
SuccessBodyDistinct(var, e, recs) ==
  [success |-> TRUE,
   records |-> recs,
   totalRecords |-> Cardinality({recs[i] : i \in 1..Len(recs)}),
   table |-> TableId(var, e),
   filter |-> FILTER_FORMULA,
   sort |-> [field |-> SORT_FIELD, direction |-> SORT_DIRECTION]]
SuccessBody(var, e, recs) ==
  LET core == [success |-> TRUE,
               records |-> recs,
               totalRecords |-> Len(recs),
               table |-> TableId(var, e),
               filter |-> FILTER_FORMULA,
               sort |-> [field |-> SORT_FIELD, direction |-> SORT_DIRECTION]]
  IN IF var = "local"
       THEN core @@ [fieldSummary |->
                       IF Len(recs) > 0 THEN [sampleRecord |-> recs[1]] ELSE Null]
       ELSE core

Development(e) == e.NODE_ENV = Str(<<"development">>)

\* The error body; FailureBodyPartial is the variant that also carries a
\* records list and a count.
FailureBodyPartial(var, e, msg) ==
  [success |-> FALSE, error |-> ErrorTypeFor(var, msg), message |-> msg,
   records |-> <<>>, totalRecords |-> 0]
FailureBody(var, e, msg) ==
  LET core == [success |-> FALSE, error |-> ErrorTypeFor(var, msg), message |-> msg]
  IN CASE var = "vercel" /\ Development(e) ->
            core @@ [stack |-> <<"stack">>,
                     baseId |-> e.AIRTABLE_BASE_ID.v,
                     tableId |-> TableId(var, e)]
       [] var = "airtable" /\ Development(e) -> core @@ [stack |-> <<"stack">>]
       [] OTHER -> core

\* -------------------------------------------------------------------- state
VARIABLES
  variant,     \* which copy of the handler runs
  env,         \* process.env, read once at module load
  dataset,     \* the upstream's page chain
  fault,       \* the upstream failure of this deployment: which call fails, how
  method,      \* req.method of the invocation in progress
  pc,          \* "idle", "awaiting" (suspended in await fetch), "responded"
  fstate,      \* fetchAllRecords: "START", "FETCHING", "DONE", "FAILED"
  allRecords,  \* fetchAllRecords' accumulator
  offset,      \* fetchAllRecords' working token
  pageCount,   \* fetchAllRecords' page counter
  inflight,    \* requests handed to fetch() and not yet answered
  reply,       \* answers received and not yet consumed by fetchPage
  calls,       \* every request of this invocation, in order
  served,      \* every answer of this invocation, in order
  thrown,      \* the message of the error fetchAllRecords threw
  res,         \* the response object
  previous     \* what the last completed fetchAllRecords returned, Null before

vars == <<variant, env, dataset, fault, method, pc, fstate, allRecords, offset,
          pageCount, inflight, reply, calls, served, thrown, res, previous>>

world == <<variant, env, dataset, fault>>

\* ------------------------------------------------------------ initial states
SeqsUpTo(S, n) == UNION {[1..k -> S] : k \in 0..n}

\* A page body as JSON.parse gives it: "records" and "offset" may be missing.
MkData(hasRecords, recs, off) ==
  [f \in (IF hasRecords THEN {"records"} ELSE {})
           \cup (IF off = Undefined THEN {} ELSE {"offset"}) |->
     IF f = "records" THEN recs ELSE off]

RecordOptions ==
  {[has |-> FALSE, items |-> <<>>]}
    \cup {[has |-> TRUE, items |-> r] : r \in SeqsUpTo(Records, MaxRecords)}

\* How the last page of a chain may end: no offset, offset null, offset "",
\* or a token of an earlier page (an upstream that never ends).
EndOffsets(n) == {Undefined, Null, Str(<<>>)} \cup {Str(TokenOf(j)) : j \in 2..n}

Chain(n, rs, end) ==
  [i \in 1..n |->
     MkData(rs[i].has, rs[i].items, IF i < n THEN Str(TokenOf(i + 1)) ELSE end)]

RECURSIVE Total(_)
Total(rs) == IF rs = <<>> THEN 0 ELSE Len(Head(rs).items) + Total(Tail(rs))

Datasets ==
  UNION {{Chain(n, rs, end) :
            rs \in {x \in [1..n -> RecordOptions] : Total(x) <= MaxRecords},
            end \in EndOffsets(n)} : n \in 1..MaxPages}

Ends(ds) == ~Truthy(OffsetField(ds[Len(ds)]))

Key == Str(<<"patKey">>)
Base == Str(<<"appBase">>)
Production == Str(<<"production">>)
MkEnv(k, b, t, n) ==
  [AIRTABLE_API_KEY |-> k, AIRTABLE_BASE_ID |-> b, AIRTABLE_TABLE_ID |-> t,
   NODE_ENV |-> n]

ConfigOk(e) == Truthy(e.AIRTABLE_API_KEY) /\ Truthy(e.AIRTABLE_BASE_ID)

Fresh ==
  /\ method = "none"
  /\ pc = "idle"
  /\ fstate = "START"
  /\ allRecords = <<>>
  /\ offset = Null
  /\ pageCount = 0
  /\ inflight = {}
  /\ reply = <<>>
  /\ calls = <<>>
  /\ served = <<>>
  /\ thrown = Null
  /\ previous = Null
  /\ res = FreshRes

\* Paging: every page chain, an upstream that never fails.
InitPaging ==
  /\ variant \in Variants
  /\ env \in {MkEnv(Key, Base, t, Production) :
                t \in {Undefined} \cup
                      (IF variant = "vercel" THEN {Str(<<"tblCustom">>)} ELSE {})}
  /\ dataset \in Datasets
  /\ fault = NoFault

\* Failure: a finite chain whose k-th request fails.
InitFault ==
  /\ variant \in Variants
  /\ env \in {MkEnv(Key, Base, Undefined, n) :
                n \in {Production, Str(<<"development">>)}}
  /\ dataset \in {ds \in Datasets : "offset" \notin DOMAIN ds[Len(ds)]}
  /\ fault \in {[at |-> k, kind |-> "http", status |-> 429, text |-> <<>>] :
                  k \in 1..Len(dataset)}
               \cup {[at |-> k, kind |-> "network", status |-> 0,
                      text |-> <<"fetch failed">>] : k \in 1..Len(dataset)}

\* Configuration: a required variable unset or empty.
InitConfig ==
  /\ variant \in Variants
  /\ env \in {MkEnv(k, b, Undefined, Production) :
                k \in {Undefined, Str(<<>>), Key}, b \in {Undefined, Str(<<>>), Base}}
  /\ ~ConfigOk(env)
  /\ dataset \in {ds \in Datasets : Len(ds) = 1 /\ DOMAIN ds[1] = {"records"}}
  /\ fault = NoFault

Init == (InitPaging \/ InitFault \/ InitConfig) /\ Fresh

\* Progress: every chain shape and every way it ends, one record value, an
\* upstream that answers every request or fails the last one.
InitLive ==
  /\ variant \in Variants
  /\ env = MkEnv(Key, Base, Undefined, Production)
  /\ dataset \in {ds \in Datasets :
                    \A i \in 1..Len(ds) :
                      \A j \in 1..Len(RecordsOf(ds[i])) : RecordsOf(ds[i])[j] = "r1"}
  /\ fault \in {NoFault,
                [at |-> Len(dataset), kind |-> "http", status |-> 429, text |-> <<>>],
                [at |-> Len(dataset), kind |-> "network", status |-> 0,
                 text |-> <<"fetch failed">>]}
  /\ Fresh

\* Error bodies: every text of up to MaxBody symbols, bare and as a JSON
\* string (which the vercel copy parses and writes again).
Statuses == {401, 403, 404, 422, 429, 500}
BodySymbols == {"4", "0", "1", "\\u0034", "Forbidden"}
Bodies ==
  SeqsUpTo(BodySymbols, MaxBody)
    \cup {<<Quote>> \o b \o <<Quote>> : b \in SeqsUpTo(BodySymbols, MaxBody)}

\* Messages of a rejected fetch(): the runtime's own, or one naming the
\* address it could not reach.
NetworkTexts ==
  {<<"fetch failed">>}
    \cup {<<"connect ECONNREFUSED ">> \o a : a \in SeqsUpTo({"4", "0", "1"}, MaxBody)}

\* Error answers: the last request of a one- or two-page chain is answered
\* with any status and body, or rejected, or (no failure) served.
InitErr ==
  /\ variant \in Variants
  /\ env = MkEnv(Key, Base, Undefined, Production)
  /\ dataset \in {Chain(n, [i \in 1..n |-> [has |-> TRUE, items |-> <<"r1">>]],
                        Undefined) : n \in 1..2}
  /\ fault \in {[at |-> Len(dataset), kind |-> "http", status |-> st, text |-> b] :
                  st \in Statuses, b \in Bodies}
               \cup {[at |-> Len(dataset), kind |-> "network", status |-> 0,
                      text |-> t] : t \in NetworkTexts}
               \cup {NoFault}
  /\ Fresh

\* ------------------------------------------------------------------ actions
\* allRecords.push(...pageData.records); PushFront is the variant that
\* prepends.
PushFront(acc, items) == items \o acc
Push(acc, items) == acc \o items

\* The handler's method checks: "preflight" for OPTIONS, "reject" for any
\* other method but GET, "serve" for GET.  MethodGateOptionsOnly is the
\* variant without the 405 check.
MethodGateOptionsOnly(m) == IF m = "OPTIONS" THEN "preflight" ELSE "serve"
MethodGate(m) ==
  IF m = "OPTIONS" THEN "preflight"
  ELSE IF m # "GET" THEN "reject"
  ELSE "serve"

\* The handler's configuration checks, in order: the name of the first
\* required variable that is falsy, "none" when all are set.  The vercel
\* copy also checks the table id, which its fallback always sets.
\* MissingConfigUndefinedOnly is the variant that accepts an empty string.
MissingConfigUndefinedOnly(var, e) ==
  IF e.AIRTABLE_API_KEY = Undefined THEN "AIRTABLE_API_KEY"
  ELSE IF e.AIRTABLE_BASE_ID = Undefined THEN "AIRTABLE_BASE_ID"
  ELSE "none"
MissingConfig(var, e) ==
  IF ~Truthy(e.AIRTABLE_API_KEY) THEN "AIRTABLE_API_KEY"
  ELSE IF ~Truthy(e.AIRTABLE_BASE_ID) THEN "AIRTABLE_BASE_ID"
  ELSE IF var = "vercel" /\ TableId(var, e) = <<>> THEN "AIRTABLE_TABLE_ID"
  ELSE "none"

\* The handler from its entry to its first await or its response: CORS
\* headers, OPTIONS, method check, configuration checks, then fetchAllRecords
\* up to the first fetch().  The local harness always passes mockReq (GET).
\* HandlerEntryKeeping is the variant whose accumulator outlives the invocation.
HandlerEntryKeeping(m) ==
  /\ pc \in {"idle", "responded"}
  /\ variant = "local" => m = "GET"
  /\ method' = m
  /\ allRecords' = allRecords
  /\ offset' = Null
  /\ reply' = <<>>
  /\ served' = <<>>
  /\ thrown' = Null
  /\ LET r == [FreshRes EXCEPT !.headers = CORSHeaders(variant)]
         missing == MissingConfig(variant, env)
         respond(x) ==
           /\ res' = x
           /\ pc' = "responded"
           /\ fstate' = "START"
           /\ pageCount' = 0
           /\ inflight' = {}
           /\ calls' = <<>>
     IN CASE MethodGate(m) = "preflight" -> respond(End(r, 200))
          [] MethodGate(m) = "reject" ->
               respond(Json(r, 405, Plain(variant, "Method not allowed",
                                          <<"Only GET requests are supported">>)))
          [] MethodGate(m) = "serve" /\ missing # "none" ->
               respond(Json(r, 500, Plain(variant, "Server configuration error",
                              <<missing, " environment variable is not set">>)))
          [] OTHER ->
               /\ res' = r
               /\ pc' = "awaiting"
               /\ fstate' = "FETCHING"
               /\ pageCount' = 1
               /\ inflight' = {buildAirtableURL(variant, env, Null)}
               /\ calls' = <<buildAirtableURL(variant, env, Null)>>
  /\ UNCHANGED <<world, previous>>
HandlerEntry(m) ==
  /\ pc \in {"idle", "responded"}
  /\ variant = "local" => m = "GET"
  /\ method' = m
  /\ allRecords' = <<>>
  /\ offset' = Null
  /\ reply' = <<>>
  /\ served' = <<>>
  /\ thrown' = Null
  /\ LET r == [FreshRes EXCEPT !.headers = CORSHeaders(variant)]
         missing == MissingConfig(variant, env)
         respond(x) ==
           /\ res' = x
           /\ pc' = "responded"
           /\ fstate' = "START"
           /\ pageCount' = 0
           /\ inflight' = {}
           /\ calls' = <<>>
     IN CASE MethodGate(m) = "preflight" -> respond(End(r, 200))
          [] MethodGate(m) = "reject" ->
               respond(Json(r, 405, Plain(variant, "Method not allowed",
                                          <<"Only GET requests are supported">>)))
          [] MethodGate(m) = "serve" /\ missing # "none" ->
               respond(Json(r, 500, Plain(variant, "Server configuration error",
                              <<missing, " environment variable is not set">>)))
          [] OTHER ->
               /\ res' = r
               /\ pc' = "awaiting"
               /\ fstate' = "FETCHING"
               /\ pageCount' = 1
               /\ inflight' = {buildAirtableURL(variant, env, Null)}
               /\ calls' = <<buildAirtableURL(variant, env, Null)>>
  /\ UNCHANGED <<world, previous>>

\* fetch() settles: the answer rep to the request url leaves the network and
\* waits for fetchPage to resume.
Settled(url, rep) ==
  /\ inflight' = inflight \ {url}
  /\ reply' = Append(reply, rep)
  /\ served' = Append(served, rep)
  /\ UNCHANGED <<world, method, pc, fstate, allRecords, offset, pageCount, calls,
                 thrown, res, previous>>

\* The upstream answers 200 with a page.
UpstreamPage ==
  /\ pc = "awaiting"
  /\ \E url \in inflight :
       \E rep \in {Upstream(dataset, fault, Len(calls), url)} :
         rep.kind = "ok" /\ Settled(url, rep)

\* The upstream answers with a status that is not ok.
UpstreamError ==
  /\ pc = "awaiting"
  /\ \E url \in inflight :
       \E rep \in {Upstream(dataset, fault, Len(calls), url)} :
         rep.kind = "http" /\ Settled(url, rep)

\* fetch() rejects: no answer at all.
NetworkFailure ==
  /\ pc = "awaiting"
  /\ \E url \in inflight :
       \E rep \in {Upstream(dataset, fault, Len(calls), url)} :
         rep.kind = "network" /\ Settled(url, rep)

\* fetchPage resumes with a page; the loop body ends; the offset is truthy:
\* the next iteration runs up to its fetch().
\* ResumeNextPageTwice is the variant that counts a page at both ends of the
\* loop body.
\* ResumeNextPageParallel is the variant that sends a second request along
\* with the next one.
ResumeNextPageTwice ==
  /\ pc = "awaiting" /\ reply # <<>> /\ Head(reply).kind = "ok"
  /\ LET pageData == [records |-> RecordsOf(Head(reply).data),
                      offset |-> OffsetField(Head(reply).data)]
     IN /\ Truthy(pageData.offset)
        /\ pageCount < MaxCalls
        /\ allRecords' = Push(allRecords, pageData.records)
        /\ offset' = pageData.offset
        /\ pageCount' = pageCount + 2
        /\ inflight' = inflight \cup {buildAirtableURL(variant, env, pageData.offset)}
        /\ calls' = Append(calls, buildAirtableURL(variant, env, pageData.offset))
  /\ reply' = Tail(reply)
  /\ UNCHANGED <<world, method, pc, fstate, served, thrown, res, previous>>
ResumeNextPageParallel ==
  /\ pc = "awaiting" /\ reply # <<>> /\ Head(reply).kind = "ok"
  /\ LET pageData == [records |-> RecordsOf(Head(reply).data),
                      offset |-> OffsetField(Head(reply).data)]
     IN /\ Truthy(pageData.offset)
        /\ pageCount < MaxCalls
        /\ allRecords' = Push(allRecords, pageData.records)
        /\ offset' = pageData.offset
        /\ pageCount' = pageCount + 1
        /\ inflight' = inflight \cup {buildAirtableURL(variant, env, pageData.offset),
                                    buildAirtableURL(variant, env, Null)}
        /\ calls' = calls \o <<buildAirtableURL(variant, env, pageData.offset),
                               buildAirtableURL(variant, env, Null)>>
  /\ reply' = Tail(reply)
  /\ UNCHANGED <<world, method, pc, fstate, served, thrown, res, previous>>
ResumeNextPage ==
  /\ pc = "awaiting" /\ reply # <<>> /\ Head(reply).kind = "ok"
  /\ LET pageData == [records |-> RecordsOf(Head(reply).data),
                      offset |-> OffsetField(Head(reply).data)]
     IN /\ Truthy(pageData.offset)
        /\ pageCount < MaxCalls
        /\ allRecords' = Push(allRecords, pageData.records)
        /\ offset' = pageData.offset
        /\ pageCount' = pageCount + 1
        /\ inflight' = inflight \cup {buildAirtableURL(variant, env, pageData.offset)}
        /\ calls' = Append(calls, buildAirtableURL(variant, env, pageData.offset))
  /\ reply' = Tail(reply)
  /\ UNCHANGED <<world, method, pc, fstate, served, thrown, res, previous>>

\* fetchPage resumes with a page whose offset is falsy: the loop ends,
\* fetchAllRecords returns and the handler answers 200.
\* ResumeDoneCapped is the variant that also stops after the second page.
ResumeDoneCapped ==
  /\ pc = "awaiting" /\ reply # <<>> /\ Head(reply).kind = "ok"
  /\ LET pageData == [records |-> RecordsOf(Head(reply).data),
                      offset |-> OffsetField(Head(reply).data)]
     IN /\ ~Truthy(pageData.offset) \/ pageCount >= 2
        /\ allRecords' = Push(allRecords, pageData.records)
        /\ offset' = pageData.offset
        /\ res' = Json(res, 200, SuccessBody(variant, env, Push(allRecords, pageData.records)))
  /\ reply' = Tail(reply)
  /\ fstate' = "DONE"
  /\ pc' = "responded"
  /\ previous' = [t |-> "list", v |-> allRecords']
  /\ UNCHANGED <<world, method, pageCount, inflight, calls, served, thrown>>
ResumeDone ==
  /\ pc = "awaiting" /\ reply # <<>> /\ Head(reply).kind = "ok"
  /\ LET pageData == [records |-> RecordsOf(Head(reply).data),
                      offset |-> OffsetField(Head(reply).data)]
     IN /\ ~Truthy(pageData.offset)
        /\ allRecords' = Push(allRecords, pageData.records)
        /\ offset' = pageData.offset
        /\ res' = Json(res, 200, SuccessBody(variant, env, Push(allRecords, pageData.records)))
  /\ reply' = Tail(reply)
  /\ fstate' = "DONE"
  /\ pc' = "responded"
  /\ previous' = [t |-> "list", v |-> allRecords']
  /\ UNCHANGED <<world, method, pageCount, inflight, calls, served, thrown>>

\* fetch() rejected or the answer is not ok: fetchPage throws, fetchAllRecords
\* lets the error through and the handler's catch block answers.
\* ResumeErrorRetrying is the variant that sends the failed request again.
ResumeErrorRetrying ==
  /\ pc = "awaiting" /\ reply # <<>> /\ Head(reply).kind # "ok"
  /\ LET msg == ErrorMessage(variant, Head(reply))
     IN /\ thrown' = Str(msg)
        /\ res' = Json(res, StatusFor(variant, msg), FailureBody(variant, env, msg))
  /\ reply' = Tail(reply)
  /\ fstate' = "FAILED"
  /\ pc' = "responded"
  /\ inflight' = {calls[Len(calls)]}
  /\ calls' = Append(calls, calls[Len(calls)])
  /\ UNCHANGED <<world, method, allRecords, offset, pageCount, served, previous>>
ResumeError ==
  /\ pc = "awaiting" /\ reply # <<>> /\ Head(reply).kind # "ok"
  /\ LET msg == ErrorMessage(variant, Head(reply))
     IN /\ thrown' = Str(msg)
        /\ res' = Json(res, StatusFor(variant, msg), FailureBody(variant, env, msg))
  /\ reply' = Tail(reply)
  /\ fstate' = "FAILED"
  /\ pc' = "responded"
  /\ UNCHANGED <<world, method, allRecords, offset, pageCount, inflight, calls, served,
                 previous>>

Methods == {"GET", "OPTIONS", "POST"}

Next ==
  \/ \E m \in Methods : HandlerEntry(m)
  \/ UpstreamPage
  \/ UpstreamError
  \/ NetworkFailure
  \/ ResumeNextPage
  \/ ResumeDone
  \/ ResumeError

Spec == Init /\ [][Next]_vars

\* The same handler against the error answers.
SpecErr == InitErr /\ [][Next]_vars

\* The event loop resumes a settled await, and a request in flight settles.
Fetching == UpstreamPage \/ UpstreamError \/ NetworkFailure
Resuming == ResumeNextPage \/ ResumeDone \/ ResumeError
FairSpec == InitLive /\ [][Next]_vars /\ WF_vars(Fetching \/ Resuming)

\* ------------------------------------------------------------------ claims
\* The items of an upstream page and the token it returns, read from the
\* upstream's own answer.
PageItems(page) == IF "records" \in DOMAIN page THEN page.records ELSE <<>>

RECURSIVE ConcatItems(_)
ConcatItems(ps) ==
  IF ps = <<>> THEN <<>> ELSE PageItems(Head(ps)) \o ConcatItems(Tail(ps))

RECURSIVE SumSizes(_)
SumSizes(reps) ==
  IF reps = <<>> THEN 0 ELSE Len(PageItems(Head(reps).data)) + SumSizes(Tail(reps))

\* The chain is finite: its last page returns no token, null or "".
FiniteChain ==
  \/ "offset" \notin DOMAIN dataset[Len(dataset)]
  \/ dataset[Len(dataset)].offset \in {Null, Str(<<>>)}

\* C1: when fetchAllRecords returns, the upstream's chain is finite and the
\* value returned (and put in the response) is the concatenation of the
\* items of pages 1..n in page order, nothing dropped, sorted or deduplicated.
C1_Concatenation ==
  fstate = "DONE" =>
    /\ FiniteChain
    /\ allRecords = ConcatItems(dataset)
    /\ res.body.records = ConcatItems(dataset)

\* C1 witness: three pages, "r2" on the first and "r1" on the last, returned
\* in that order.
C1_Witness ==
  /\ fstate = "DONE"
  /\ Len(dataset) = 3
  /\ PageItems(dataset[1]) = <<"r2">>
  /\ PageItems(dataset[3]) = <<"r1">>
  /\ allRecords = <<"r2", "r1">>

\* C2: against a finite chain of n pages and an upstream that does not fail,
\* a fetch in progress completes, and a completed fetch made exactly n calls
\* to fetchPage (one call when the collection is empty).
C2_Termination ==
  /\ [](fstate = "DONE" => Len(calls) = Len(dataset) /\ pageCount = Len(dataset))
  /\ [](pc = "awaiting" /\ FiniteChain /\ fault = NoFault => <>(fstate = "DONE"))

\* C2 witness: a three-page chain fetched to the end in three calls.
C2_Witness ==
  /\ fstate = "DONE"
  /\ Len(dataset) = 3
  /\ Len(calls) = 3

\* C3: the first request carries no offset; request i+1 carries, as the
\* upstream reads it, exactly the token answer i returned.
C3_TokenPassThrough ==
  /\ calls # <<>> => OffsetOf(calls[1]) = Undefined
  /\ \A i \in 2..Len(calls) :
       /\ i - 1 <= Len(served)
       /\ served[i - 1].kind = "ok"
       /\ "offset" \in DOMAIN served[i - 1].data
       /\ OffsetOf(calls[i]) = served[i - 1].data.offset

\* C3 witness: the third request carries the token of the third page, after
\* the second carried the one of the second page.
C3_Witness ==
  /\ Len(calls) = 3
  /\ OffsetOf(calls[2]) = Str(TokenOf(2))
  /\ OffsetOf(calls[3]) = Str(TokenOf(3))

\* C4: when call k fails, fetchAllRecords fails with the error of that call
\* after exactly k requests, none in flight; and from FAILED nothing changes
\* the outcome or issues a request until the next invocation begins.
C4_Failed ==
  fstate = "FAILED" =>
    /\ Len(calls) = fault.at
    /\ Len(served) = fault.at
    /\ inflight = {}
    /\ served[fault.at].kind # "ok"
    /\ \A i \in 1..(fault.at - 1) : served[i].kind = "ok"
    /\ thrown.t = "string"
    /\ res.body.message = thrown.v
    /\ (fault.kind = "network" => thrown.v = fault.text)
    /\ (fault.kind = "http" =>
          /\ Includes(thrown.v, NumText(fault.status))
          /\ Includes(thrown.v, fault.text))

C4_FailFast ==
  /\ []C4_Failed
  /\ [][fstate = "FAILED" =>
          \/ (fstate' = "FAILED" /\ calls' = calls /\ inflight' = {}
                /\ thrown' = thrown /\ res' = res)
          \/ \E m \in Methods : HandlerEntry(m)]_vars

\* C4 witness: the second of three pages failed; two requests were made.
C4_Witness ==
  /\ fstate = "FAILED"
  /\ Len(dataset) = 3
  /\ fault.at = 2
  /\ Len(calls) = 2

\* C5: a failure after earlier pages succeeded answers with the failure
\* object only: success false, error, message, no records, no totalRecords,
\* and not with status 200.
C5_NoPartialResult ==
  fstate = "FAILED" =>
    /\ res.sent = "json"
    /\ res.statusCode # 200
    /\ {"success", "error", "message"} \subseteq DOMAIN res.body
    /\ res.body.success = FALSE
    /\ "records" \notin DOMAIN res.body
    /\ "totalRecords" \notin DOMAIN res.body

\* C5 witness: the second request failed after the first page brought records.
C5_Witness ==
  /\ fstate = "FAILED"
  /\ fault.at = 2
  /\ allRecords # <<>>
  /\ Development(env)

\* The table of the handler contract, in its order: code, phrase, category.
C6_Table ==
  <<[code |-> 401, phrase |-> <<"Unauthorized">>, category |-> "Authentication error"],
    [code |-> 403, phrase |-> <<"Forbidden">>, category |-> "Permission denied"],
    [code |-> 404, phrase |-> <<"Not", " ", "Found">>, category |-> "Resource not found"],
    [code |-> 422, phrase |-> <<"Unprocessable">>, category |-> "Invalid request"],
    [code |-> 429, phrase |-> <<"Too", " ", "Many", " ", "Requests">>,
     category |-> "Rate limit exceeded"]>>

\* The entries a copy of the handler has, and the entry of status s (0: none).
C6_Listed(var) == IF var = "vercel" THEN 1..5 ELSE 1..4
C6_EntryOf(var, s) ==
  IF \E i \in C6_Listed(var) : C6_Table[i].code = s
    THEN CHOOSE i \in C6_Listed(var) : C6_Table[i].code = s
    ELSE 0

\* The message holds the code of entry i, or (not in the local copy) its phrase.
C6_Marked(var, i, msg) ==
  \/ Includes(msg, NumText(C6_Table[i].code))
  \/ var # "local" /\ Includes(msg, C6_Table[i].phrase)

\* C6 as stated: the answer to a failure with upstream status s has the
\* status and category of s whatever the body text, 500 for any other s.
C6_StatusFromUpstream ==
  fstate = "FAILED" /\ fault.kind = "http" =>
    /\ res.body.success = FALSE
    /\ IF \E i \in 1..5 : C6_Table[i].code = fault.status
         THEN /\ res.statusCode = fault.status
              /\ \E i \in 1..5 : /\ C6_Table[i].code = fault.status
                                 /\ res.body.error = C6_Table[i].category
         ELSE res.statusCode = 500

\* C6 amended: the answer has success false, and the status and category of
\* s whenever the error message holds no code or phrase of an entry listed
\* before that of s (of any entry, when s has none, and the status is then
\* 500).  The vercel copy lists five entries with their categories and
\* 'Internal server error'; the other two list the first four and always
\* give 'Failed to fetch Airtable records'.
C6_StatusFromMessage ==
  fstate = "FAILED" /\ fault.kind = "http" =>
    LET msg == res.body.message
        k == C6_EntryOf(variant, fault.status)
        before == IF k = 0 THEN C6_Listed(variant) ELSE 1..(k - 1)
    IN /\ res.body.success = FALSE
       /\ (\A j \in before : ~C6_Marked(variant, j, msg)) =>
            /\ res.statusCode = (IF k = 0 THEN 500 ELSE fault.status)
            /\ res.body.error =
                 (IF variant # "vercel" THEN FailedToFetch
                  ELSE IF k = 0 THEN "Internal server error"
                  ELSE C6_Table[k].category)

\* C6 witness: the vercel copy answers 401 to an upstream 401 whose body
\* names a later entry.
C6_Witness ==
  /\ fstate = "FAILED"
  /\ variant = "vercel"
  /\ fault.kind = "http" /\ fault.status = 401
  /\ fault.text = <<"Forbidden">>
  /\ res.statusCode = 401
  /\ res.body.error = "Authentication error"

\* C7: one page without items (or without a records field) and without a
\* token is a success: one call, fetchAllRecords returns the empty
\* collection, the handler answers 200, success, records [], totalRecords 0.
C7_EmptyPage ==
  (/\ pc = "responded" /\ method = "GET" /\ ConfigOk(env) /\ fault = NoFault
   /\ Len(dataset) = 1
   /\ PageItems(dataset[1]) = <<>>
   /\ "offset" \notin DOMAIN dataset[1]) =>
    /\ fstate = "DONE"
    /\ Len(calls) = 1
    /\ allRecords = <<>>
    /\ res.sent = "json" /\ res.statusCode = 200
    /\ res.body.success = TRUE
    /\ res.body.records = <<>>
    /\ res.body.totalRecords = 0

\* C7 witness: the upstream's only page has no records field and no offset.
C7_Witness ==
  /\ pc = "responded" /\ method = "GET" /\ fstate = "DONE"
  /\ Len(dataset) = 1
  /\ DOMAIN dataset[1] = {}
  /\ res.statusCode = 200

\* C8: with the API key or the base id unset or empty, a GET invocation
\* answers 500 'Server configuration error' and makes no upstream request.
C8_ConfigShortCircuit ==
  (method = "GET" /\ ~ConfigOk(env)) =>
    /\ pc = "responded"
    /\ res.sent = "json" /\ res.statusCode = 500
    /\ res.body.error = "Server configuration error"
    /\ calls = <<>> /\ inflight = {} /\ served = <<>>
    /\ fstate = "START"

\* C8 witness: a GET answered while the base id is the empty string.
C8_Witness ==
  /\ method = "GET" /\ pc = "responded"
  /\ env.AIRTABLE_API_KEY = Key
  /\ env.AIRTABLE_BASE_ID = Str(<<>>)
  /\ res.statusCode = 500

\* C9: an OPTIONS request is answered 200 with no body, any other method
\* but GET 405, both without a request to the upstream, whatever the
\* configuration; requests to the upstream exist only under GET.
C9_OnlyGetFetches ==
  /\ method = "OPTIONS" =>
       /\ pc = "responded" /\ res.sent = "end" /\ res.statusCode = 200
       /\ res.body = <<>>
       /\ calls = <<>> /\ inflight = {}
  /\ method \notin {"none", "GET", "OPTIONS"} =>
       /\ pc = "responded" /\ res.sent = "json" /\ res.statusCode = 405
       /\ res.body.error = "Method not allowed"
       /\ calls = <<>> /\ inflight = {}
  /\ (calls # <<>> \/ inflight # {}) => method = "GET"

\* C9 witness: a POST answered 405 while the API key is unset.
C9_Witness ==
  /\ method = "POST" /\ pc = "responded"
  /\ env.AIRTABLE_API_KEY = Undefined
  /\ res.statusCode = 405

\* The table a copy of the handler reads: the constant of the file, which
\* the vercel copy lets a non-empty AIRTABLE_TABLE_ID replace.
C10_Table ==
  CASE variant = "airtable" -> <<"TableName">>
    [] variant = "local" -> <<"tblDrUWfwkwMQM9yR">>
    [] variant = "vercel" ->
         IF env.AIRTABLE_TABLE_ID \in {Undefined, Null, Str(<<>>)}
           THEN <<"tblDrUWfwkwMQM9yR">>
           ELSE env.AIRTABLE_TABLE_ID.v

\* C10: a GET answered 200 carries success true, the collection
\* fetchAllRecords returned, its length (the sum of the sizes of the pages
\* fetched) and the fixed table, filter and sort.
C10_SuccessBody ==
  (pc = "responded" /\ method = "GET" /\ res.statusCode = 200) =>
    /\ res.sent = "json"
    /\ fstate = "DONE"
    /\ res.body.success = TRUE
    /\ res.body.records = allRecords
    /\ res.body.totalRecords = Len(res.body.records)
    /\ res.body.totalRecords = SumSizes(served)
    /\ res.body.table = C10_Table
    /\ res.body.filter = <<"NOT", "(", "{", "Status", "}", "=", "'", "Done", "'", ")">>
    /\ res.body.sort = [field |-> <<"Name">>, direction |-> <<"asc">>]

\* C10 witness: two pages bringing the same record, both counted.
C10_Witness ==
  /\ pc = "responded" /\ method = "GET" /\ res.statusCode = 200
  /\ Len(served) = 2
  /\ res.body.records = <<"r1", "r1">>
  /\ res.body.totalRecords = 2

\* C11: an invocation that completes after an earlier one completed against
\* the same upstream returns, and answers with, the collection the earlier
\* one returned: same records, same order, nothing carried over.
C11_Idempotent ==
  [][(pc = "awaiting" /\ fstate' = "DONE" /\ previous # Null) =>
       /\ dataset' = dataset
       /\ allRecords' = previous.v
       /\ res'.body.records = previous.v]_vars

\* C11 witness: a second invocation under way after the first returned two
\* records, its accumulator holding only what it fetched itself.
C11_Witness ==
  /\ pc = "awaiting"
  /\ previous # Null
  /\ previous.v = <<"r2", "r1">>
  /\ allRecords = <<"r2">>
  /\ Len(calls) = 2

\* C12 as stated: a rejected fetch() is answered 500 'Internal server
\* error' with success false.
C12_NetworkDefault ==
  fstate = "FAILED" /\ fault.kind = "network" =>
    /\ res.body.success = FALSE
    /\ res.statusCode = 500
    /\ res.body.error = "Internal server error"

\* C12 amended: a rejected fetch() is answered through the same catch block,
\* with success false and the rejection's message; when that message holds
\* none of the listed codes or phrases the status is 500 and the category
\* 'Internal server error' in the vercel copy, 'Failed to fetch Airtable
\* records' in the other two.
C12_NetworkFailure ==
  fstate = "FAILED" /\ fault.kind = "network" =>
    /\ res.sent = "json"
    /\ res.body.success = FALSE
    /\ res.body.message = fault.text
    /\ (\A j \in C6_Listed(variant) : ~C6_Marked(variant, j, fault.text)) =>
         /\ res.statusCode = 500
         /\ res.body.error =
              (IF variant = "vercel" THEN "Internal server error" ELSE FailedToFetch)

\* C12 witness: the vercel copy answers 500 'Internal server error' to a
\* fetch() that failed on the second page.
C12_Witness ==
  /\ fstate = "FAILED"
  /\ variant = "vercel"
  /\ fault.kind = "network" /\ fault.text = <<"fetch failed">>
  /\ Len(calls) = 2
  /\ res.statusCode = 500
  /\ res.body.error = "Internal server error"

\* C13 as stated: when call k returns an upstream error, k-1 calls were made
\* in the invocation.
C13_OneCallFewer ==
  fstate = "FAILED" /\ fault.kind = "http" => Len(calls) = fault.at - 1

\* C13 amended: when call k returns an upstream error, k calls were made in
\* the invocation, the k-1 answered with a page and the failing one, however
\* many pages the chain has; the page counter stands at k.
C13_CallsAtFailure ==
  fstate = "FAILED" /\ fault.kind = "http" =>
    /\ Len(calls) = fault.at
    /\ pageCount = fault.at
    /\ Cardinality({i \in 1..Len(served) : served[i].kind = "ok"}) = fault.at - 1
    /\ fault.at <= Len(dataset)

\* C13 witness: the second call of a three-page chain returned 429; two calls
\* were made, not three.
C13_Witness ==
  /\ fstate = "FAILED"
  /\ fault.kind = "http" /\ fault.at = 2
  /\ Len(dataset) = 3
  /\ pageCount = 2
  /\ Len(calls) = 2

\* The cross-origin headers that let any origin call the endpoint.
C14_Permissive(h) ==
  /\ {"Access-Control-Allow-Origin", "Access-Control-Allow-Methods",
      "Access-Control-Allow-Headers"} \subseteq DOMAIN h
  /\ h["Access-Control-Allow-Origin"] = "*"
  /\ h["Access-Control-Allow-Methods"] = "GET, OPTIONS"
  /\ h["Access-Control-Allow-Headers"] = "Content-Type, Authorization"

\* C14: from the entry of the handler on, and so on every response it sends
\* (preflight 200, 405, configuration 500, success 200, fetch failure), the
\* response carries the permissive cross-origin headers.
C14_CORSOnEveryResponse ==
  /\ pc # "idle" => C14_Permissive(res.headers)
  /\ pc = "responded" =>
       /\ res.sent \in {"json", "end"}
       /\ \/ method = "OPTIONS" /\ res.statusCode = 200 /\ res.sent = "end"
          \/ method = "POST" /\ res.statusCode = 405
          \/ method = "GET" /\ ~ConfigOk(env) /\ res.statusCode = 500
          \/ method = "GET" /\ fstate = "DONE" /\ res.statusCode = 200
          \/ method = "GET" /\ fstate = "FAILED" /\ res.statusCode # 200

\* C14 witness: the answer to a failed fetch carries the headers.
C14_Witness ==
  /\ pc = "responded"
  /\ fstate = "FAILED"
  /\ res.statusCode = 500
  /\ res.headers["Access-Control-Allow-Origin"] = "*"

\* The items of the pages answers 1..n brought, in order.
RECURSIVE C15_Consumed(_, _)
C15_Consumed(reps, n) ==
  IF n = 0 THEN <<>>
  ELSE C15_Consumed(reps, n - 1) \o PageItems(reps[n].data)

\* C15: within an invocation at most one request is outstanding; request
\* N+1 exists only once answer N was received and consumed: its items are in
\* the accumulator and its token is the working token; and the step that
\* issues a request is the one that consumes the answer before it.
C15_Sequential ==
  /\ [](/\ Cardinality(inflight) + Len(reply) <= 1
        /\ pc = "awaiting" =>
             /\ Cardinality(inflight) + Len(reply) = 1
             /\ Len(calls) = pageCount
             /\ Len(served) = Len(calls) - Cardinality(inflight)
             /\ allRecords = C15_Consumed(served, Len(calls) - 1)
             /\ Len(calls) >= 2 => offset = served[Len(calls) - 1].data.offset)
  /\ [][(pc = "awaiting" /\ calls' # calls) =>
          /\ inflight = {} /\ reply # <<>>
          /\ Len(calls') = Len(calls) + 1
          /\ allRecords' = allRecords \o PageItems(Head(reply).data)
          /\ offset' = Head(reply).data.offset
          /\ reply' = <<>>]_vars

\* C15 witness: the third request is in flight, alone, after two pages were
\* consumed.
C15_Witness ==
  /\ pc = "awaiting"
  /\ Len(calls) = 3
  /\ Cardinality(inflight) = 1
  /\ Len(served) = 2
  /\ allRecords = <<"r1", "r2">>

\* The upstream returns a non-empty token on every page: the last page of
\* the chain points back into it.
C16_Endless == ~FiniteChain /\ fault = NoFault

\* C16: against an upstream that returns a non-empty token on every page, a
\* GET invocation never reaches DONE or FAILED and never responds, and it
\* goes on requesting pages: its page counter reaches every value the model
\* allows, past the length of the chain.
C16_NoPageCap ==
  /\ [](C16_Endless /\ method = "GET" =>
          /\ fstate = "FETCHING"
          /\ pc = "awaiting"
          /\ res.sent = "no")
  /\ [](C16_Endless /\ pc = "awaiting" =>
          <>(pageCount = MaxCalls /\ Len(calls) = MaxCalls))

\* C16 witness: more requests than the chain has pages, and still fetching.
C16_Witness ==
  /\ C16_Endless
  /\ pc = "awaiting"
  /\ Len(dataset) = 2
  /\ Len(calls) = MaxCalls
  /\ Len(served) = MaxCalls

\* The entries of the given set whose code or phrase occurs in the message.
C17_Hits(var, listed, msg) == {i \in listed : C6_Marked(var, i, msg)}

\* The status of the first of them in the order of the table, 500 when none.
C17_Expected(hits) ==
  IF hits = {} THEN 500
  ELSE C6_Table[CHOOSE i \in hits : \A j \in hits : i <= j].code

\* C17 as stated: the status of a failure answer is that of the first of the
\* five entries whose code or phrase occurs in the message, 500 when none.
C17_FirstOfFive ==
  fstate = "FAILED" =>
    res.statusCode =
      C17_Expected({i \in 1..5 :
                      \/ Includes(res.body.message, NumText(C6_Table[i].code))
                      \/ Includes(res.body.message, C6_Table[i].phrase)})

\* C17 amended: the status of a failure answer is that of the first entry
\* the copy lists whose marker occurs anywhere in the message, the upstream
\* body included, and 500 when none occurs, whatever the upstream status:
\* five entries by code or phrase in the vercel copy, the first four by code
\* or phrase in serverless-airtable.js, the first four by code alone in the
\* local harness.
C17_FirstMatch ==
  fstate = "FAILED" =>
    /\ res.body.message = thrown.v
    /\ res.statusCode =
         C17_Expected(C17_Hits(variant, C6_Listed(variant), res.body.message))

\* C17 witness: an upstream 403 whose body holds 401 is answered 401.
C17_Witness ==
  /\ fstate = "FAILED"
  /\ fault.kind = "http" /\ fault.status = 403
  /\ fault.text = <<"4", "0", "1">>
  /\ Includes(res.body.message, <<"4", "0", "3">>)
  /\ res.statusCode = 401
====
